---- MODULE Spec2Model ----
(***************************************************************************)
(* Streamlit opioid drug database (src/app.py): the catalog OPIOID_DATA,   *)
(* the per-session st.session_state, the widgets of the two pages and the  *)
(* script runs of main() that the user's interactions trigger.             *)
(*                                                                         *)
(* Python strings are sequences of code points (<<66>> is "B", <<>> is     *)
(* ""), so that ordering and truthiness are computed, not assumed.         *)
(* A SMILES notation is a sequence of one-character tokens.                *)
(***************************************************************************)
EXTENDS Integers, Sequences, FiniteSets, TLC

\* ---------------------------------------------------------------- bounds
MaxCatalog == 2
NumSessions == 1

Sessions == 1..NumSessions

\* ------------------------------------------------------- Python values
None == [tag |-> "None", s |-> <<>>]
Str(x) == [tag |-> "str", s |-> x]

\* bool(v) for the values the program tests: None and "" are falsy
Truthy(v) == v.tag # "None" /\ ~(v.tag = "str" /\ v.s = <<>>)

\* str.__lt__: lexicographic on code points, a proper prefix is smaller
RECURSIVE StrLess(_, _)
StrLess(a, b) ==
  IF a = <<>> THEN b # <<>>
  ELSE IF b = <<>> THEN FALSE
  ELSE IF a[1] # b[1] THEN a[1] < b[1]
  ELSE StrLess(Tail(a), Tail(b))

\* ----------------------------------------------------- record universe
\* "Morphine"
Morphine == <<77, 111, 114, 112, 104, 105, 110, 101>>

\* "CN1CCC23C4C1CC5=C2C(=C(C=C5)O)OC3C(C=C4)O"
MorphineSmiles ==
  <<"C", "N", "1", "C", "C", "C", "2", "3", "C", "4", "C", "1", "C", "C", "5", "=", "C", "2",
    "C", "(", "=", "C", "(", "C", "=", "C", "5", ")", "O", ")", "O", "C", "3", "C", "(", "C", "=", "C", "4", ")", "O">>

\* names a catalog entry may carry: "", "Morphine", "a", "aB"
NameUniverse == {<<>>, Morphine, <<97>>, <<97, 66>>}

\* notations: Morphine's, and "C1CC" (unmatched ring digit)
SmilesUniverse == {MorphineSmiles, <<"C", "1", "C", "C">>}

\* a drug dict of OPIOID_DATA; the remaining keys (iupac, formula, weight,
\* category, uses, toxicity, symptoms, side_effects, precautions,
\* pubchem_cid) are only formatted into markdown by drug_detail_page
DrugRecords == [name : NameUniverse, smiles : SmilesUniverse]

RECURSIVE SeqsUpTo(_, _)
SeqsUpTo(S, n) ==
  IF n = 0 THEN {<<>>}
  ELSE LET shorter == SeqsUpTo(S, n - 1)
       IN shorter \cup {Append(q, x) : q \in {r \in shorter : Len(r) = n - 1}, x \in S}

Catalogs == SeqsUpTo(DrugRecords, MaxCatalog)

\* ------------------------------------------------------------- RDKit
AtomTokens == {"C", "N", "O"}
RingDigits == {"1", "2", "3", "4", "5", "6", "7", "8", "9"}

BondTokens == {"-", "=", "#"}

\* Chem.MolFromSmiles: one left-to-right scan; None for an unknown token, for
\* a ring digit, branch or bond symbol with no atom before it, for a bond
\* symbol not followed by an atom, for a branch close with no open, and for
\* an unmatched ring digit or an open branch at the end of the string.
\* bond = a bond symbol is waiting for its second atom
RECURSIVE ScanSmiles(_, _, _, _, _, _)
ScanSmiles(smiles, i, openRings, depth, atoms, bond) ==
  IF i > Len(smiles)
  THEN IF openRings = {} /\ depth = 0 /\ atoms > 0 /\ ~bond
       THEN [tag |-> "Mol", s |-> smiles]
       ELSE None
  ELSE LET c == smiles[i]
       IN IF c \in AtomTokens
          THEN ScanSmiles(smiles, i + 1, openRings, depth, atoms + 1, FALSE)
          ELSE IF atoms = 0 \/ bond THEN None
          ELSE IF c \in BondTokens
          THEN ScanSmiles(smiles, i + 1, openRings, depth, atoms, TRUE)
          ELSE IF c \in RingDigits
          THEN IF c \in openRings
               THEN ScanSmiles(smiles, i + 1, openRings \ {c}, depth, atoms, FALSE)
               ELSE ScanSmiles(smiles, i + 1, openRings \cup {c}, depth, atoms, FALSE)
          ELSE IF c = "("
          THEN ScanSmiles(smiles, i + 1, openRings, depth + 1, atoms, FALSE)
          ELSE IF c = ")"
          THEN IF depth = 0 THEN None
               ELSE ScanSmiles(smiles, i + 1, openRings, depth - 1, atoms, FALSE)
          ELSE None

MolFromSmiles(smiles) == ScanSmiles(smiles, 1, {}, 0, 0, FALSE)

\* Draw.MolToImage, PNG-encoded and base64-encoded: a non-empty str that is
\* a function of the molecule
MolToImageB64(mol) == [tag |-> "str", s |-> <<"png">> \o mol.s]

\* the six entries of the properties dict, values are functions of mol
PropertyKeys == {"Molecular Weight", "LogP", "H-Bond Donors", "H-Bond Acceptors",
                 "Rotatable Bonds", "Polar Surface Area"}

Dict(entries) == [tag |-> "dict", s |-> entries]

\* ------------------------------------------------- utility functions
get_compound_image(smiles) ==
  LET mol == MolFromSmiles(smiles)
  IN IF Truthy(mol) THEN MolToImageB64(mol) ELSE None

calculate_properties(smiles) ==
  LET mol == MolFromSmiles(smiles)
  IN IF ~Truthy(mol) THEN Dict({})
     ELSE Dict({<<k, mol.s>> : k \in PropertyKeys})

\* ------------------------------------------------------------ sorted()
\* list.sort is stable: x goes after every element that is not greater
RECURSIVE InsertSorted(_, _)
InsertSorted(x, xs) ==
  IF xs = <<>> THEN <<x>>
  ELSE IF StrLess(x, xs[1]) THEN <<x>> \o xs
  ELSE <<xs[1]>> \o InsertSorted(x, Tail(xs))

\* str.lower on the ASCII letters
Lower(str) == [i \in 1..Len(str) |-> IF str[i] \in 65..90 THEN str[i] + 32 ELSE str[i]]

RECURSIVE InsertSortedLower(_, _)
InsertSortedLower(x, xs) ==
  IF xs = <<>> THEN <<x>>
  ELSE IF StrLess(Lower(x), Lower(xs[1])) THEN <<x>> \o xs
  ELSE <<xs[1]>> \o InsertSortedLower(x, Tail(xs))

RECURSIVE sorted_ignoreCase(_)
sorted_ignoreCase(xs) ==
  IF xs = <<>> THEN <<>>
  ELSE InsertSortedLower(xs[Len(xs)], sorted_ignoreCase(SubSeq(xs, 1, Len(xs) - 1)))

RECURSIVE sorted(_)
sorted(xs) ==
  IF xs = <<>> THEN <<>>
  ELSE InsertSorted(xs[Len(xs)], sorted(SubSeq(xs, 1, Len(xs) - 1)))

\* ----------------------------------------------------------- the state
VARIABLES
  OPIOID_DATA,    \* the module-level list of drug dicts
  session_state,  \* per session: is "current_drug" a key, and its value
  selectbox,      \* per session: the widget's index into its options, 0 = no widget state
  view,           \* per session: what the last completed script run rendered
  event           \* per session: the interaction that triggered that run

vars == <<OPIOID_DATA, session_state, selectbox, view, event>>

EmptySessionState == [has |-> FALSE, current_drug |-> None]

NoView ==
  [page |-> "none", errors |-> {}, options |-> <<>>, view_button |-> FALSE,
   back_button |-> FALSE, drug |-> None, img_data |-> None, image_shown |-> FALSE,
   props |-> Dict({})]

\* [drug["name"] for drug in OPIOID_DATA]
NamesOf(data) == [i \in 1..Len(data) |-> data[i].name]

\* sorted([drug["name"] for drug in OPIOID_DATA])
drug_names(data) == sorted(NamesOf(data))

findByName_startswith(data, drug_name) ==
  LET hits == {i \in 1..Len(data) :
                 /\ Len(data[i].name) >= Len(drug_name)
                 /\ SubSeq(data[i].name, 1, Len(drug_name)) = drug_name}
  IN IF hits = {} THEN None
     ELSE data[CHOOSE i \in hits : \A j \in hits : i <= j]

\* next((d for d in OPIOID_DATA if d["name"] == drug_name), None)
findByName(data, drug_name) ==
  LET hits == {i \in 1..Len(data) : data[i].name = drug_name}
  IN IF hits = {} THEN None
     ELSE data[CHOOSE i \in hits : \A j \in hits : i <= j]

\* ---------------------------------------------------------- the pages
\* Each page returns what one script run leaves behind: the session state,
\* the selectbox's widget state, whether st.experimental_rerun() was called,
\* the rendered elements, and the module-level list OPIOID_DATA.

\* st.selectbox(label, options): the option at the widget's index, the
\* first option when the widget has no state, None when there is no option
SelectboxIndex(options, sel) ==
  IF options = <<>> THEN 0 ELSE IF sel = 0 THEN 1 ELSE sel

HomeView(options) ==
  [NoView EXCEPT !.page = "home", !.options = options, !.view_button = TRUE]

home_page_storesLabel(data, ss, sel, click) ==
  LET options == drug_names(data)
      index == SelectboxIndex(options, sel)
      selected_drug == IF options = <<>> THEN None ELSE Str(options[index] \o <<32>>)
  IN IF click = "view"
     THEN [ss |-> [has |-> TRUE, current_drug |-> selected_drug],
           sel |-> index, rerun |-> TRUE, view |-> NoView, data |-> data]
     ELSE [ss |-> ss, sel |-> index, rerun |-> FALSE,
           view |-> HomeView(options), data |-> data]

RECURSIVE InsertDrug(_, _)
InsertDrug(d, ds) ==
  IF ds = <<>> THEN <<d>>
  ELSE IF StrLess(d.name, ds[1].name) THEN <<d>> \o ds
  ELSE <<ds[1]>> \o InsertDrug(d, Tail(ds))

RECURSIVE SortDrugs(_)
SortDrugs(ds) ==
  IF ds = <<>> THEN <<>>
  ELSE InsertDrug(ds[Len(ds)], SortDrugs(SubSeq(ds, 1, Len(ds) - 1)))

home_page_sortsInPlace(data, ss, sel, click) ==
  LET data1 == SortDrugs(data)
      options == NamesOf(data1)
      index == SelectboxIndex(options, sel)
      selected_drug == IF options = <<>> THEN None ELSE Str(options[index])
  IN IF click = "view"
     THEN [ss |-> [has |-> TRUE, current_drug |-> selected_drug],
           sel |-> index, rerun |-> TRUE, view |-> NoView, data |-> data1]
     ELSE [ss |-> ss, sel |-> index, rerun |-> FALSE,
           view |-> HomeView(options), data |-> data1]

home_page(data, ss, sel, click) ==
  LET options == drug_names(data)
      index == SelectboxIndex(options, sel)
      selected_drug == IF options = <<>> THEN None ELSE Str(options[index])
  IN IF click = "view"
     THEN [ss |-> [has |-> TRUE, current_drug |-> selected_drug],
           sel |-> index, rerun |-> TRUE, view |-> NoView, data |-> data]
     ELSE [ss |-> ss, sel |-> index, rerun |-> FALSE,
           view |-> HomeView(options), data |-> data]

DetailView == [NoView EXCEPT !.page = "detail"]

NoDrugSelected == "No drug selected. Please go back to the home page."
NotAvailable == "Drug information not available"

drug_detail_page_keepsSelection(data, ss, click) ==
  LET drug_name == IF ss.has THEN ss.current_drug ELSE Str(<<>>)
      drug == findByName(data, drug_name.s)
      img_data == get_compound_image(drug.smiles)
      props == calculate_properties(drug.smiles)
  IN IF ~Truthy(drug_name)
     THEN [ss |-> ss, sel |-> 0, rerun |-> FALSE,
           view |-> [DetailView EXCEPT !.errors = {NoDrugSelected}], data |-> data]
     ELSE IF drug = None
     THEN [ss |-> ss, sel |-> 0, rerun |-> FALSE,
           view |-> [DetailView EXCEPT !.errors = {NotAvailable}], data |-> data]
     ELSE IF click = "back"
     THEN [ss |-> ss, sel |-> 0, rerun |-> TRUE, view |-> NoView, data |-> data]
     ELSE [ss |-> ss, sel |-> 0, rerun |-> FALSE,
           view |-> [DetailView EXCEPT !.drug = drug, !.img_data = img_data,
                                       !.image_shown = Truthy(img_data),
                                       !.props = props, !.back_button = TRUE],
           data |-> data]

drug_detail_page_returnsEarly(data, ss, click) ==
  LET drug_name == IF ss.has THEN ss.current_drug ELSE Str(<<>>)
      drug == findByName(data, drug_name.s)
      img_data == get_compound_image(drug.smiles)
      props == calculate_properties(drug.smiles)
  IN IF ~Truthy(drug_name)
     THEN [ss |-> ss, sel |-> 0, rerun |-> FALSE,
           view |-> [DetailView EXCEPT !.errors = {NoDrugSelected}], data |-> data]
     ELSE IF drug = None
     THEN [ss |-> ss, sel |-> 0, rerun |-> FALSE,
           view |-> [DetailView EXCEPT !.errors = {NotAvailable}], data |-> data]
     ELSE IF ~Truthy(img_data)
     THEN [ss |-> ss, sel |-> 0, rerun |-> FALSE,
           view |-> [DetailView EXCEPT !.drug = drug, !.img_data = img_data],
           data |-> data]
     ELSE IF click = "back"
     THEN [ss |-> EmptySessionState, sel |-> 0, rerun |-> TRUE, view |-> NoView,
           data |-> data]
     ELSE [ss |-> ss, sel |-> 0, rerun |-> FALSE,
           view |-> [DetailView EXCEPT !.drug = drug, !.img_data = img_data,
                                       !.image_shown = Truthy(img_data),
                                       !.props = props, !.back_button = TRUE],
           data |-> data]

drug_detail_page(data, ss, click) ==
  LET drug_name == IF ss.has THEN ss.current_drug ELSE Str(<<>>)
      drug == findByName(data, drug_name.s)
      img_data == get_compound_image(drug.smiles)
      props == calculate_properties(drug.smiles)
  IN IF ~Truthy(drug_name)
     THEN [ss |-> ss, sel |-> 0, rerun |-> FALSE,
           view |-> [DetailView EXCEPT !.errors = {NoDrugSelected}], data |-> data]
     ELSE IF drug = None
     THEN [ss |-> ss, sel |-> 0, rerun |-> FALSE,
           view |-> [DetailView EXCEPT !.errors = {NotAvailable}], data |-> data]
     ELSE IF click = "back"
     THEN [ss |-> EmptySessionState, sel |-> 0, rerun |-> TRUE, view |-> NoView,
           data |-> data]
     ELSE [ss |-> ss, sel |-> 0, rerun |-> FALSE,
           view |-> [DetailView EXCEPT !.drug = drug, !.img_data = img_data,
                                       !.image_shown = Truthy(img_data),
                                       !.props = props, !.back_button = TRUE],
           data |-> data]

main(data, ss, sel, click) ==
  LET ss1 == IF ~ss.has THEN [has |-> TRUE, current_drug |-> None] ELSE ss
  IN IF Truthy(ss1.current_drug)
     THEN drug_detail_page(data, ss1, click)
     ELSE home_page(data, ss1, sel, click)

\* one interaction: the script runs with the widget values of the
\* interaction and, if it asked for a rerun, runs again with no button pressed
ScriptRun(data, ss, sel, click) ==
  LET r == main(data, ss, sel, click)
  IN IF r.rerun THEN main(r.data, r.ss, r.sel, "none") ELSE r

Finish(s, r, e) ==
  /\ session_state' = [session_state EXCEPT ![s] = r.ss]
  /\ selectbox' = [selectbox EXCEPT ![s] = r.sel]
  /\ view' = [view EXCEPT ![s] = r.view]
  /\ event' = [event EXCEPT ![s] = e]
  /\ OPIOID_DATA' = r.data

\* --------------------------------------------------------- the actions
Init ==
  /\ OPIOID_DATA \in Catalogs
  /\ session_state = [s \in Sessions |-> EmptySessionState]
  /\ selectbox = [s \in Sessions |-> 0]
  /\ view = [s \in Sessions |-> NoView]
  /\ event = [s \in Sessions |-> "none"]

\* a browser (re)connects: fresh session state, first run of the script
NewSession(s) ==
  /\ s \in Sessions
  /\ Finish(s, ScriptRun(OPIOID_DATA, EmptySessionState, 0, "none"), "load")

\* the user picks option i of "Select an opioid drug:"
SelectDrug(s, i) ==
  /\ view[s].page = "home"
  /\ i \in 1..Len(view[s].options)
  /\ i # selectbox[s]
  /\ Finish(s, ScriptRun(OPIOID_DATA, session_state[s], i, "none"), "select")

\* the user presses "View Drug Details"
ViewDrugDetails(s) ==
  /\ view[s].view_button
  /\ Finish(s, ScriptRun(OPIOID_DATA, session_state[s], selectbox[s], "view"), "view")

\* the user presses "Back to Home"
BackToHome(s) ==
  /\ view[s].back_button
  /\ Finish(s, ScriptRun(OPIOID_DATA, session_state[s], selectbox[s], "back"), "back")

\* the user reruns the script with no widget changed
Rerun(s) ==
  /\ view[s].page # "none"
  /\ Finish(s, ScriptRun(OPIOID_DATA, session_state[s], selectbox[s], "none"), "rerun")

Next ==
  \E s \in Sessions :
    \/ NewSession(s)
    \/ \E i \in 1..MaxCatalog : SelectDrug(s, i)
    \/ ViewDrugDetails(s)
    \/ BackToHome(s)
    \/ Rerun(s)

Spec == Init /\ [][Next]_vars

\* ------------------------------------------------------------ claims
\* the page main() routes the session to: DetailView(id) when the stored
\* selection is truthy, ListView otherwise
NavigationState(s) ==
  IF Truthy(session_state[s].current_drug)
  THEN [state |-> "DetailView", id |-> session_state[s].current_drug.s]
  ELSE [state |-> "ListView", id |-> <<>>]

IsCatalogName(n) == \E i \in 1..Len(OPIOID_DATA) : OPIOID_DATA[i].name = n

ParseFails(smiles) == ~Truthy(MolFromSmiles(smiles))

\* C1: from ListView, choosing any name of a catalog record and pressing
\* "View Drug Details" routes the next run of main() to the detail page and
\* stores exactly that name as the selection.
C1_SelectValidYieldsDetail ==
  [][\A s \in Sessions :
       (ViewDrugDetails(s) /\ drug_names(OPIOID_DATA) # <<>>)
         => LET id == drug_names(OPIOID_DATA)[SelectboxIndex(drug_names(OPIOID_DATA), selectbox[s])]
            IN /\ IsCatalogName(id)
               /\ view'[s].page = "detail"
               /\ session_state'[s].current_drug = Str(id)]_vars

\* C3: "Back to Home" from DetailView(id), for any id, clears the stored
\* selection; the following run of main() re-initialises it to None and
\* renders the list view.
C3_BackYieldsListView ==
  [][\A s \in Sessions :
       (NavigationState(s).state = "DetailView" /\ BackToHome(s))
         => /\ session_state'[s] = [has |-> TRUE, current_drug |-> None]
            /\ view'[s].page = "home"
            /\ ~Truthy(session_state'[s].current_drug)]_vars

C3_Witness ==
  \E s \in Sessions : event[s] = "back" /\ view[s].page = "home"

\* C4: the session starts in ListView; in every reachable state the page
\* rendered is the detail page exactly when a selection is stored as
\* DetailView(id), never both or neither, and a stored selection is the
\* name of a record of the catalog.
C4_InitialListView ==
  \A s \in Sessions : NavigationState(s).state = "ListView"

C4_OneOfTwoStates ==
  \A s \in Sessions :
    /\ NavigationState(s).state \in {"ListView", "DetailView"}
    /\ (view[s].page = "detail") <=> (NavigationState(s).state = "DetailView")
    /\ view[s].page \in {"none", "home", "detail"}
    /\ session_state[s].current_drug.tag = "str"
         => IsCatalogName(session_state[s].current_drug.s)

C4_NavigationStateValid == C4_InitialListView /\ []C4_OneOfTwoStates

C4_Witness ==
  \E s \in Sessions :
    /\ view[s].page = "detail"
    /\ NavigationState(s).id \in {Morphine, <<97>>, <<97, 66>>}
    /\ event[s] = "view"

\* C5: the lookup is an exact match: for every name it yields a record of
\* the catalog whose name equals that name, or None when no record has that
\* name; the record the detail page shows is the record named by the
\* stored selection.
C5_FindByNameExact ==
  /\ \A n \in NameUniverse :
       LET r == findByName(OPIOID_DATA, n)
       IN IF IsCatalogName(n)
          THEN /\ r # None
               /\ \E i \in 1..Len(OPIOID_DATA) : OPIOID_DATA[i] = r
               /\ r.name = n
          ELSE r = None
  /\ \A s \in Sessions :
       view[s].page = "detail"
         => /\ view[s].drug # None
            /\ view[s].drug.name = session_state[s].current_drug.s
            /\ \E i \in 1..Len(OPIOID_DATA) : OPIOID_DATA[i] = view[s].drug

C5_Witness ==
  \E s \in Sessions :
    /\ view[s].page = "detail"
    /\ view[s].drug.name = <<97>>
    /\ Len(OPIOID_DATA) = 2
    /\ OPIOID_DATA[1].name = <<97, 66>>
    /\ ~IsCatalogName(Morphine)

\* C6: the options of the list view are the names of all records, each
\* name as often as it occurs in the catalog, in ascending code-point
\* order, whatever the order of the records in OPIOID_DATA.
C6_ListNamesSorted ==
  \A s \in Sessions :
    view[s].page = "home"
      => LET options == view[s].options
         IN /\ Len(options) = Len(OPIOID_DATA)
            /\ \A n \in NameUniverse :
                 Cardinality({i \in 1..Len(options) : options[i] = n})
                   = Cardinality({i \in 1..Len(OPIOID_DATA) : OPIOID_DATA[i].name = n})
            /\ \A i, j \in 1..Len(options) :
                 i < j => ~StrLess(options[j], options[i])

C6_Witness ==
  \E s \in Sessions :
    /\ view[s].page = "home"
    /\ Len(OPIOID_DATA) = 2
    /\ OPIOID_DATA[1].name = <<97>>
    /\ OPIOID_DATA[2].name = Morphine
    /\ view[s].options = <<Morphine, <<97>>>>

\* C7: for a notation the parser rejects, the image computation and the
\* descriptor computation each hand their caller a ParseError, and no image
\* and no descriptor entry is produced.
C7_ParseErrorSurfaced ==
  \A s \in Sessions :
    (view[s].page = "detail" /\ view[s].drug # None /\ ParseFails(view[s].drug.smiles))
      => /\ view[s].img_data.tag = "ParseError"
         /\ view[s].props.tag = "ParseError"
         /\ ~view[s].image_shown

\* C8: when the detail view of a record hits a failure (its notation does
\* not parse, or the lookup fails), the navigation state stays as it is, a
\* message is shown to the user, and the back control is offered.
C8_FailureShownAndRecoverable ==
  \A s \in Sessions :
    (/\ view[s].page = "detail"
     /\ IF view[s].drug = None THEN TRUE ELSE ParseFails(view[s].drug.smiles))
      => /\ NavigationState(s).state = "DetailView"
         /\ view[s].errors # {}
         /\ view[s].back_button

\* C9: no operation of any session changes the catalog: its sequence of
\* records and every field of every record stay as constructed.
C9_CatalogReadOnly == [][OPIOID_DATA' = OPIOID_DATA]_vars

C9_Witness ==
  /\ Len(OPIOID_DATA) = 2
  /\ StrLess(OPIOID_DATA[2].name, OPIOID_DATA[1].name)
  /\ \E s \in Sessions : event[s] = "back" /\ view[s].page = "home"

\* C10: no rendered page is a dead end: every detail view offers "Back to
\* Home" and pressing it leads to the list view, every list view offers
\* "View Drug Details", with a name to select when the catalog is not empty.
C10_NoTerminalState ==
  \A s \in Sessions :
    /\ view[s].page # "none" => (view[s].view_button \/ view[s].back_button)
    /\ view[s].page = "detail"
         => /\ view[s].back_button
            /\ ScriptRun(OPIOID_DATA, session_state[s], selectbox[s], "back").view.page = "home"
    /\ view[s].page = "home"
         => /\ view[s].view_button
            /\ OPIOID_DATA # <<>>
                 => /\ Len(view[s].options) >= 1
                    /\ selectbox[s] \in 1..Len(view[s].options)

C10_Witness ==
  \E s \in Sessions :
    /\ view[s].page = "detail"
    /\ view[s].back_button
    /\ ParseFails(view[s].drug.smiles)

====
